---- MODULE Spec2Model ----
(***************************************************************************)
(* potts: Polymer analyzer output -> TypeScript declaration files.         *)
(*                                                                         *)
(* The repository holds three generations of the same generator:          *)
(*   src/index.js          ("index")    one interface per element          *)
(*   src/unnamed/part_000  ("part_000") per-file mode, outDir              *)
(*   src/unnamed/part_001  ("part_001") single-file mode, outFile          *)
(*                                                                         *)
(* Strings are sequences of tokens (a token is one character for names and *)
(* identifiers, one path piece for file paths and type descriptors).  The  *)
(* JavaScript values undefined and null and a thrown TypeError are the     *)
(* reserved one-token sequences below; no real string contains them.       *)
(***************************************************************************)
EXTENDS Integers, Sequences, FiniteSets, TLC

\* ------------------------------------------------------------------ bounds
MaxNameLen == 4
MaxIdLen == 5
MaxFeatures == 2

\* --------------------------------------------------------- JavaScript values
Undefined == <<"<undefined>">>
Null == <<"<null>">>
TypeError == <<"<TypeError>">>
\* the same throw where the function would have returned an object
Thrown == [throw |-> "TypeError"]

Truthy(v) == v \notin {Undefined, Null, <<>>}

Last(s) == s[Len(s)]
Front(s) == SubSeq(s, 1, Len(s) - 1)

\* sequences over S of length 0..n
SeqUpTo(S, n) == UNION {[1..k -> S] : k \in 0..n}

\* Array.prototype.join over a sequence of strings
RECURSIVE join(_, _)
join(parts, sep) ==
  IF Len(parts) = 0 THEN <<>>
  ELSE IF Len(parts) = 1 THEN parts[1]
  ELSE parts[1] \o sep \o join(Tail(parts), sep)

\* String.prototype.split(sep) for a one-token separator
RECURSIVE split(_, _)
split(s, sep) ==
  IF \E i \in 1..Len(s) : s[i] = sep
  THEN LET i == CHOOSE i \in 1..Len(s) : s[i] = sep /\ \A j \in 1..(i - 1) : s[j] # sep
       IN  <<SubSeq(s, 1, i - 1)>> \o split(SubSeq(s, i + 1, Len(s)), sep)
  ELSE <<s>>

\* ------------------------------------------------------- identifier casing
LowerCase == <<"a", "b", "c", "d", "e", "f", "g", "h", "i", "j", "k", "l", "m",
               "n", "o", "p", "q", "r", "s", "t", "u", "v", "w", "x", "y", "z">>
UpperCase == <<"A", "B", "C", "D", "E", "F", "G", "H", "I", "J", "K", "L", "M",
               "N", "O", "P", "Q", "R", "S", "T", "U", "V", "W", "X", "Y", "Z">>

toUpperCase(c) ==
  IF \E i \in 1..Len(LowerCase) : LowerCase[i] = c
  THEN UpperCase[CHOOSE i \in 1..Len(LowerCase) : LowerCase[i] = c]
  ELSE c

\* name.replace(/(?:^|-)(.)/g, (_, m) => m.toUpperCase()), scanning from
\* position i: at the string start the ^ alternative takes the first
\* character whatever it is; elsewhere a hyphen takes the character after it.
RECURSIVE replaceFrom(_, _)
replaceFrom(s, i) ==
  IF i > Len(s) THEN <<>>
  ELSE IF i = 1 THEN <<toUpperCase(s[1])>> \o replaceFrom(s, 2)
  ELSE IF s[i] = "-" /\ i < Len(s)
       THEN <<toUpperCase(s[i + 1])>> \o replaceFrom(s, i + 2)
  ELSE <<s[i]>> \o replaceFrom(s, i + 1)

camelName(name) == replaceFrom(name, 1)

\* ------------------------------------------------------ namespace and name
WordChars == {LowerCase[i] : i \in 1..Len(LowerCase)}
               \cup {UpperCase[i] : i \in 1..Len(UpperCase)} \cup {"_"}

\* length of the longest prefix of \w characters
RECURSIVE wordPrefix(_)
wordPrefix(s) ==
  IF Len(s) > 0 /\ s[1] \in WordChars THEN 1 + wordPrefix(Tail(s)) ELSE 0

\* part_001: (identifier || "").match(/(?:([\w]+)\.)?(.*)/) with the
\* destructuring default namespace = null
matchIdentifier(id) ==
  LET s == IF Truthy(id) THEN id ELSE <<>>
      k == wordPrefix(s)
  IN  IF k >= 1 /\ k < Len(s) /\ s[k + 1] = "."
      THEN [namespace |-> SubSeq(s, 1, k), identifier |-> SubSeq(s, k + 2, Len(s))]
      ELSE [namespace |-> Null, identifier |-> s]

splitName001(feature) ==
  LET m == matchIdentifier(feature.identifier)
  IN  [namespace |-> m.namespace, name |-> camelName(m.identifier)]

\* part_000: className.split(".") when there is a class name, else the tag
\* name; name.replace on an absent name throws
splitName000(feature) ==
  IF Truthy(feature.className)
  THEN LET cNameParts == split(feature.className, ".")
       IN  [namespace |-> join(Front(cNameParts), <<".">>),
            name |-> camelName(Last(cNameParts))]
  ELSE IF Truthy(feature.tagName)
  THEN [namespace |-> Null, name |-> camelName(feature.tagName)]
  ELSE Thrown

\* index.js: the tag name wins; otherwise first and last part of className
splitNameIndex(item) ==
  IF Truthy(item.tagName)
  THEN [namespace |-> Null, name |-> item.tagName]
  ELSE IF Truthy(item.className)
  THEN LET cNameParts == split(item.className, ".")
       IN  [namespace |-> cNameParts[1], name |-> Last(cNameParts)]
  ELSE Thrown

\* ------------------------------------------------------------- type mapper
\* A type descriptor is a token sequence: optional "!" or "?", a base name,
\* optional "=".
parseTypeNoFallback(type, forceArray) ==
  LET t1 == IF Len(type) > 0 /\ type[1] \in {"!", "?"} THEN Tail(type) ELSE type
      t2 == IF Len(t1) > 0 /\ Last(t1) = "=" THEN Front(t1) ELSE t1
      t3 == IF t2 = <<"Array">> THEN t2 \o <<"<any>">> ELSE t2
  IN  IF forceArray THEN <<"Array<">> \o t3 \o <<">">> ELSE t3

parseType(type, forceArray) ==
  LET t1 == IF Len(type) > 0 /\ type[1] \in {"!", "?"} THEN Tail(type) ELSE type
      t2 == IF Len(t1) > 0 /\ Last(t1) = "=" THEN Front(t1) ELSE t1
      t3 == IF t2 = <<"Array">> THEN t2 \o <<"<any>">>
            ELSE IF t2 \notin {<<"Date">>, <<"string">>, <<"boolean">>,
                               <<"number">>, <<"Symbol">>}
            THEN <<"any">>
            ELSE t2
  IN  IF forceArray THEN <<"Array<">> \o t3 \o <<">">> ELSE t3

polymerVoidMethods ==
  {"created", "ready", "attached", "detached", "attributeChanged",
   "connectedCallback", "disconnectedCallback", "attributeChangedCallback",
   "updateStyles", "linkPaths", "unlinkPaths", "notifySplices", "set",
   "setProperties"}

\* (params || []).map(param => `${param.name}: any`); the caller passes []
\* for absent params
methodParams(params) ==
  [i \in 1..Len(params) |-> params[i].name \o <<": any">>]

\* part_000 cast(name, type, params)
cast000(name, type, params) ==
  IF type \in {<<"string">>, <<"number">>, <<"boolean">>}
  THEN [returnType |-> type]
  ELSE IF type = <<"Function">>
  THEN [returnType |-> IF name \in polymerVoidMethods THEN <<"void">> ELSE <<"any">>,
        methodParams |-> methodParams(params)]
  ELSE [returnType |-> IF type = <<"Array">> THEN <<"Array<any>">> ELSE <<"any">>]

\* index.js cast(type, params)
castIndex(type, params) ==
  IF type \in {<<"string">>, <<"number">>, <<"boolean">>} THEN type
  ELSE IF type = <<"Function">>
  THEN <<"(">> \o join(methodParams(params), <<", ">>) \o <<") => any">>
  ELSE IF type = <<"Array">> THEN <<"Array<any>">>
  ELSE <<"any">>

\* -------------------------------------------------- doc comments (part_001)
\* JavaScript objects are records; a property the analyzer left out is a
\* field the record does not have.  str reads a string-valued property, obj
\* an object- or array-valued one (NoObject when it is undefined).
NoObject == [undefined |-> TRUE]
EmptyObject == [proto |-> "Object"]
Has(o, f) == f \in DOMAIN o
str(o, f) == IF f \in DOMAIN o THEN o[f] ELSE Undefined
obj(o, f) == IF f \in DOMAIN o THEN o[f] ELSE NoObject
arr(o, f) == IF f \in DOMAIN o THEN o[f] ELSE <<>>

\* String.prototype.trim on a token sequence whose blanks are " " tokens
RECURSIVE trimStart(_)
trimStart(s) == IF Len(s) > 0 /\ s[1] = " " THEN trimStart(Tail(s)) ELSE s
RECURSIVE trimEnd(_)
trimEnd(s) == IF Len(s) > 0 /\ Last(s) = " " THEN trimEnd(Front(s)) ELSE s
trim(s) == trimEnd(trimStart(s))

RECURSIVE concatAll(_)
concatAll(parts) ==
  IF Len(parts) = 0 THEN <<>> ELSE parts[1] \o concatAll(Tail(parts))

\* tags.filter((tag) => tag.title !== "type" || tag.type.name): reading
\* .name of an absent tag.type throws
tagThrows(tag) == tag.title = "type" /\ ~Has(tag, "type")
tagKept(tag) == tag.title # "type" \/ Truthy(str(tag.type, "name"))

printTag(tag) ==
  <<" * @", tag.title>>
    \o (IF Has(tag, "type") /\ Truthy(str(tag.type, "name"))
        THEN <<"{">> \o tag.type.name \o <<"}">> ELSE <<>>)
    \o (IF Truthy(str(tag, "name")) THEN tag.name ELSE <<>>)
    \o trim(IF Truthy(str(tag, "description")) THEN tag.description ELSE <<>>)

\* printJSdoc({ description, tags }): the rendered comment, "" when there is
\* nothing to print, TypeError where the JavaScript throws (destructuring
\* undefined, tag.type.name, description.trim(), nonEmptyTags.map)
printJSdoc(jsdoc) ==
  IF jsdoc = NoObject THEN TypeError
  ELSE IF Has(jsdoc, "tags") /\ \E i \in 1..Len(jsdoc.tags) : tagThrows(jsdoc.tags[i])
  THEN TypeError
  ELSE
    LET description == str(jsdoc, "description")
        nonEmptyTags == IF Has(jsdoc, "tags") THEN SelectSeq(jsdoc.tags, tagKept)
                        ELSE <<>>
    IN  IF ~(Truthy(description) \/ Len(nonEmptyTags) > 0)
        THEN <<>>
        ELSE IF description = Undefined THEN TypeError
        ELSE IF ~Has(jsdoc, "tags") THEN TypeError
        ELSE <<"/**">> \o trim(description)
               \o (IF trim(description) # <<>> /\ Len(nonEmptyTags) > 0
                   THEN <<" *">> ELSE <<>>)
               \o concatAll([i \in 1..Len(nonEmptyTags) |-> printTag(nonEmptyTags[i])])
               \o <<" */">>

startsWith(s, tok) == Len(s) > 0 /\ s[1] = tok

\* printMethod(method): method.params.map and name.startsWith throw on
\* absent values; a parameter name is a token sequence, "..." first for a
\* rest parameter
printMethod(method) ==
  LET JSDoc == printJSdoc(obj(method, "jsdoc"))
  IN  IF JSDoc = TypeError THEN TypeError
      ELSE IF ~Has(method, "params") THEN TypeError
      ELSE IF \E i \in 1..Len(method.params) : ~Has(method.params[i], "name")
      THEN TypeError
      ELSE LET returnType == IF Has(method, "return")
                             THEN <<": ">> \o parseType(str(method.return, "type"), FALSE)
                             ELSE <<>>
               params == [i \in 1..Len(method.params) |->
                            method.params[i].name \o <<": ">>
                              \o parseType(str(method.params[i], "type"),
                                           startsWith(method.params[i].name, "..."))]
           IN  JSDoc \o <<method.name, "(">> \o join(params, <<", ">>) \o <<")">>
                 \o returnType \o <<";">>

\* printProperty(property): type.startsWith on an absent type throws
printProperty(property) ==
  LET JSDoc == printJSdoc(obj(property, "jsdoc"))
      type == str(property, "type")
  IN  IF JSDoc = TypeError THEN TypeError
      ELSE IF type \in {Undefined, Null} THEN TypeError
      ELSE JSDoc \o <<property.name>>
             \o (IF startsWith(type, "?") THEN <<"?">> ELSE <<>>)
             \o <<": ">> \o parseType(type, FALSE) \o <<";">>

\* --------------------------------------------------------------- module key
repos(tok) == IF tok = "bower_components" THEN "bower:" ELSE "npm:"
IsRepo(tok) == tok \in {"bower_components", "node_modules"}

\* file.replace(new RegExp("(bower_components|node_modules)\\/"), ...):
\* the first repository directory followed by a slash becomes its scheme
rewriteRepo(file) ==
  IF \E i \in 1..(Len(file) - 1) : IsRepo(file[i]) /\ file[i + 1] = "/"
  THEN LET i == CHOOSE i \in 1..(Len(file) - 1) :
                  /\ IsRepo(file[i]) /\ file[i + 1] = "/"
                  /\ \A j \in 1..(i - 1) : ~(IsRepo(file[j]) /\ file[j + 1] = "/")
       IN  SubSeq(file, 1, i - 1) \o <<repos(file[i])>> \o SubSeq(file, i + 2, Len(file))
  ELSE file

\* part_000 toModulesMap: rewritten path, then #namespace when there is one
modulePath(feature) ==
  rewriteRepo(feature.module)
    \o (IF Truthy(feature.namespace) THEN <<"#">> \o feature.namespace ELSE <<>>)


\* ------------------------------------------------------------ the Filter
supportedFeatures(variant) ==
  IF variant = "part_000"
  THEN {"element", "element-mixin", "namespace", "function", "behavior"}
  ELSE {"element", "element-mixin", "behavior"}

filterFeaturesEvery(variant, feature) ==
  IF variant = "index"
  THEN feature.ctor \in {"PolymerElement", "Behavior"}
  ELSE \A key \in feature.kinds : key \in supportedFeatures(variant)

\* filterFeatures: some kind is supported (index.js: by constructor name)
filterFeatures(variant, feature) ==
  IF variant = "index"
  THEN feature.ctor \in {"PolymerElement", "Behavior"}
  ELSE \E key \in feature.kinds : key \in supportedFeatures(variant)

\* Array.prototype.filter
RECURSIVE filter(_, _)
filter(variant, items) ==
  IF Len(items) = 0 THEN <<>>
  ELSE (IF filterFeatures(variant, items[1]) THEN <<items[1]>> ELSE <<>>)
         \o filter(variant, Tail(items))

\* ---------------------------------------------------------- the Classifier
anyThrows(rendered) == \E i \in 1..Len(rendered) : rendered[i] = TypeError

isPublic(member) == str(member, "privacy") = <<"public">>
notConditional(prop) == str(prop, "type") # <<"Conditional">>

\* part_001: jsDoc is feature.jsdoc itself (or a fresh {}), and the
\* namespace tag is pushed onto it
jsDocWithNamespace(feature) ==
  LET jsDoc == IF Has(feature, "jsdoc") THEN feature.jsdoc ELSE EmptyObject
      namespace == matchIdentifier(str(feature, "identifier")).namespace
      tags == IF Has(jsDoc, "tags") THEN jsDoc.tags ELSE <<>>
  IN  IF Truthy(namespace)
      THEN [f \in DOMAIN jsDoc \cup {"tags"} |->
              IF f = "tags" THEN Append(tags, [title |-> "namespace", name |-> namespace])
              ELSE jsDoc[f]]
      ELSE jsDoc

\* the feature after getFeatureDetails (part_001) has run on it
featureAfter001(feature) ==
  IF Has(feature, "jsdoc")
  THEN [feature EXCEPT !.jsdoc = jsDocWithNamespace(feature)]
  ELSE feature

getFeatureDetails001(feature) ==
  LET n == splitName001([identifier |-> str(feature, "identifier")])
      methods == IF Has(feature, "methods")
                 THEN LET ms == SelectSeq(feature.methods, isPublic)
                      IN  [i \in 1..Len(ms) |-> printMethod(ms[i])]
                 ELSE <<>>
      properties == IF Has(feature, "properties")
                    THEN LET ps == SelectSeq(SelectSeq(feature.properties, isPublic),
                                             notConditional)
                         IN  [i \in 1..Len(ps) |-> printProperty(ps[i])]
                    ELSE <<>>
  IN  IF anyThrows(methods) \/ anyThrows(properties) THEN Thrown
      ELSE [namespace |-> n.namespace, name |-> n.name,
            jsDoc |-> jsDocWithNamespace(feature), kinds |-> feature.kinds,
            fileName |-> feature.file, module |-> rewriteRepo(feature.file),
            hasMethods |-> Has(feature, "methods"), methods |-> methods,
            hasProperties |-> Has(feature, "properties"), properties |-> properties]

\* part_000
property000(p) ==
  LET c == cast000(p.name, str(p, "type"), arr(p, "params"))
      jsDoc == IF Truthy(str(p, "description")) THEN trim(p.description) ELSE Null
      readonly == IF Has(p, "readOnly") /\ p.readOnly THEN "readonly " ELSE ""
  IN  IF Has(c, "methodParams")
      THEN [jsDoc |-> jsDoc, readonly |-> readonly, type |-> c.returnType,
            params |-> c.methodParams, name |-> p.name]
      ELSE [jsDoc |-> jsDoc, readonly |-> readonly, type |-> c.returnType,
            name |-> p.name]

notPrivate(p) == ~(Has(p, "private") /\ p.private)

getFeatureDetails000(feature) ==
  LET n == splitName000([className |-> str(feature, "className"),
                         tagName |-> str(feature, "tagName")])
  IN  IF n = Thrown \/ ~Has(feature, "properties") THEN Thrown
      ELSE LET ps == SelectSeq(feature.properties, notPrivate)
           IN  [namespace |-> n.namespace, name |-> n.name,
                module |-> feature.file,
                jsdoc |-> IF Truthy(str(feature, "description"))
                          THEN trim(feature.description) ELSE Null,
                properties |-> [i \in 1..Len(ps) |-> property000(ps[i])]
                                 \o <<[jsDoc |-> <<>>, readonly |-> "", type |-> n.name,
                                       params |-> <<>>, name |-> "new"]>>]

\* index.js: the .map(item => ...) callback; dts is the interface text
propertyIndex(p) ==
  [jsDoc |-> str(p, "description"),
   readonly |-> IF Has(p, "readOnly") /\ p.readOnly THEN "readonly " ELSE "",
   name |-> p.name, type |-> castIndex(str(p, "type"), arr(p, "params"))]

getFeatureDetailsIndex(item) ==
  LET n == splitNameIndex([className |-> str(item, "className"),
                           tagName |-> str(item, "tagName")])
  IN  IF n = Thrown \/ ~Has(item, "properties") THEN Thrown
      ELSE [namespace |-> n.namespace, name |-> n.name,
            dts |-> [NS |-> n.namespace,
                     jsDoc |-> str(item, "description"),
                     declaration |-> IF Truthy(n.namespace) THEN "export" ELSE "declare",
                     interface |-> camelName(n.name),
                     members |-> [i \in 1..Len(item.properties) |->
                                    propertyIndex(item.properties[i])]]]

getFeatureDetails(variant, feature) ==
  IF variant = "index" THEN getFeatureDetailsIndex(feature)
  ELSE IF variant = "part_000" THEN getFeatureDetails000(feature)
  ELSE getFeatureDetails001(feature)

\* ------------------------------------------------------- the Module Grouper
\* An object or Map used as a dictionary is the sequence of its entries in
\* insertion order (the order Object.keys and Map.entries give back).
hasKey(map, key) == \E i \in 1..Len(map) : map[i].key = key
indexOf(map, key) == CHOOSE i \in 1..Len(map) : map[i].key = key

bucketOverwrite(map, key, item) ==
  IF hasKey(map, key)
  THEN [map EXCEPT ![indexOf(map, key)].members = <<item>>]
  ELSE Append(map, [key |-> key, members |-> <<item>>])

\* if (!map[key]) map[key] = []; map[key].push(item)
\* (part_001: map.has(key) ? map.get(key).push(item) : map.set(key, [item]))
bucketPush(map, key, item) ==
  IF hasKey(map, key)
  THEN [map EXCEPT ![indexOf(map, key)].members = Append(@, item)]
  ELSE Append(map, [key |-> key, members |-> <<item>>])

\* the key a descriptor is bucketed under
moduleKey(variant, descriptor) ==
  IF variant = "part_000" THEN modulePath(descriptor) ELSE descriptor.module

RECURSIVE reduceModules(_, _, _)
reduceModules(variant, map, items) ==
  IF Len(items) = 0 THEN map
  ELSE reduceModules(variant,
                     bucketPush(map, moduleKey(variant, items[1]), items[1]),
                     Tail(items))

toModulesMap(variant, items) == reduceModules(variant, <<>>, items)

\* ------------------------------------------------------------- the Renderer
\* part_000 buildModules: one block of text per module, in key order; the
\* text is kept as its parts
buildModules(modulesMap) ==
  [i \in 1..Len(modulesMap) |->
     [declareModule |-> modulesMap[i].key, interfaces |-> modulesMap[i].members]]

\* part_001 printElement / printBehavior / printMixin
printDeclaration(declaration) ==
  LET doc == printJSdoc(declaration.jsDoc)
      shape == IF "element" \in declaration.kinds THEN "class"
               ELSE IF "behavior" \in declaration.kinds THEN "interface"
               ELSE IF "element-mixin" \in declaration.kinds THEN "function"
               ELSE ""
  IN  IF shape = "" THEN [shape |-> ""]
      ELSE IF doc = TypeError \/ ~declaration.hasProperties \/ ~declaration.hasMethods
      THEN [shape |-> "TypeError"]
      ELSE [shape |-> shape, name |-> declaration.name, doc |-> doc,
            properties |-> declaration.properties, methods |-> declaration.methods]

printModules(data) ==
  [i \in 1..Len(data) |->
     [declareModule |-> data[i].key,
      contents |-> [j \in 1..Len(data[i].members) |->
                      printDeclaration(data[i].members[j])]]]

printThrows(types) ==
  \E i \in 1..Len(types) : \E j \in 1..Len(types[i].contents) :
    types[i].contents[j].shape = "TypeError"

\* ------------------------------------------------------ the Output Splitter
\* mod.match(/declare module "([^"#]*)["#]/)[1]: the module key up to its #
beforeHash(key) ==
  IF \E i \in 1..Len(key) : key[i] = "#"
  THEN SubSeq(key, 1, (CHOOSE i \in 1..Len(key) :
                         key[i] = "#" /\ \A j \in 1..(i - 1) : key[j] # "#") - 1)
  ELSE key

hasHtml(path) == \E i \in 1..Len(path) : path[i] = ".html"

\* path.match(/(?:[^:]*:)?(?:[^\/]+\/)*(.*)\.html/)[1]: what stands between
\* the last directory (or the scheme) and the last .html
fileName(path) ==
  LET h == CHOOSE i \in 1..Len(path) :
             path[i] = ".html" /\ \A j \in (i + 1)..Len(path) : path[j] # ".html"
      cuts == {i \in 1..(h - 1) : path[i] \in {"/", "bower:", "npm:"}}
      from == IF cuts = {} THEN 1 ELSE (CHOOSE i \in cuts : \A j \in cuts : j <= i) + 1
  IN  SubSeq(path, from, h - 1)

filePush(filesMap, path, mod) ==
  IF hasKey(filesMap, path)
  THEN [filesMap EXCEPT ![indexOf(filesMap, path)].modules = Append(@, mod)]
  ELSE Append(filesMap, [key |-> path, fileName |-> fileName(path), modules |-> <<mod>>])

RECURSIVE reduceFiles(_, _)
reduceFiles(filesMap, mods) ==
  IF Len(mods) = 0 THEN filesMap
  ELSE reduceFiles(filePush(filesMap, beforeHash(mods[1].declareModule), mods[1]),
                   Tail(mods))

\* null[1] throws when a path has no .html in it
splitThrows(mods) ==
  \E i \in 1..Len(mods) : ~hasHtml(beforeHash(mods[i].declareModule))

splitModulesToFiles(mods) == reduceFiles(<<>>, mods)

\* --------------------------------------------------------------- the writes
\* part_000: one fs.writeFile per entry of filesMap
writes000(filesMap) ==
  [i \in 1..Len(filesMap) |->
     [file |-> filesMap[i].fileName \o <<".d.ts">>, text |-> filesMap[i].modules]]

\* index.js: cli.output names one file for everything, else one per element
writesIndex(output, elements) ==
  IF output
  THEN <<[file |-> <<"types.d.ts">>,
          text |-> [i \in 1..Len(elements) |-> elements[i].dts]]>>
  ELSE [i \in 1..Len(elements) |->
          [file |-> elements[i].name \o <<".d.ts">>, text |-> <<elements[i].dts>>]]

writeFile(files, job) ==
  [f \in DOMAIN files \cup {job.file} |-> IF f = job.file THEN job.text ELSE files[f]]

\* process.exit(code) as the status the parent sees
exitStatus(code) == code % 256

\* .catch(console.error): console.error returns undefined, which becomes
\* the value of the recovered promise
consoleErrorEmptyDocument(err) == [features |-> <<>>]
consoleError(err) == NoObject

\* ==================================================================== state
VARIABLES
  variant,        \* which generation of the generator runs
  cliOutput,      \* index.js: cli.output was given
  features,       \* the analyzer's feature objects (document.getFeatures())
  pc,             \* position in the promise chain
  document,       \* what analyze() resolved with
  selected,       \* the features the Filter kept
  classified,     \* the descriptors of getFeatureDetails
  modulesMap,     \* module key -> descriptors
  blocks,         \* rendered module blocks
  filesMap,       \* part_000: path -> {fileName, modules}
  jobs,           \* the fs.writeFile calls of the run
  wstate,         \* per call: issued, written/failed (callback pending), done/rejected
  disk,           \* output file name -> content
  exitCode,       \* exit status once pc = "exited"
  stdout,         \* what console.log printed
  err,            \* the rejection reason travelling down the chain
  analysisFailed, \* analyze() rejected in this run
  arg,            \* input of the function under test (pure-function runs)
  out             \* its results

vars == <<variant, cliOutput, features, pc, document, selected, classified,
          modulesMap, blocks, filesMap, jobs, wstate, disk, exitCode, stdout,
          err, analysisFailed, arg, out>>

pipelineVars == <<variant, cliOutput, features, document, selected, classified,
                  modulesMap, blocks, filesMap, jobs, wstate, disk, exitCode,
                  stdout, err, analysisFailed>>

\* ------------------------------------------------------------------ inputs
Doc(text) == [description |-> text, tags |-> <<>>]

label == [name |-> "label", type |-> <<"string">>, privacy |-> <<"public">>,
          readOnly |-> TRUE, description |-> <<" ", "The label.">>,
          jsdoc |-> Doc(<<"The label.">>)]
secret == [name |-> "_secret", privacy |-> <<"private">>, private |-> TRUE]
untyped == [name |-> "value", privacy |-> <<"public">>, jsdoc |-> Doc(<<>>)]
ready == [name |-> "ready", type |-> <<"Function">>, privacy |-> <<"public">>,
          params |-> <<[name |-> <<"e">>]>>, jsdoc |-> Doc(<<>>)]
doThing == [name |-> "doThing", privacy |-> <<"public">>, params |-> <<>>,
            return |-> [type |-> <<"number">>], jsdoc |-> Doc(<<"Does it.">>)]
restMethod == [name |-> "log", privacy |-> <<"public">>,
               params |-> <<[name |-> <<"...", "args">>, type |-> <<"Foo">>]>>,
               jsdoc |-> Doc(<<>>)]

fooA == <<"a", "/", "foo", ".html">>
fooB == <<"b", "/", "foo", ".html">>
fooBower == <<"bower_components", "/", "a", "/", "foo", ".html">>
barHtml == <<"bar", ".html">>
libJs == <<"lib", ".js">>

myEl == [ctor |-> "PolymerElement", kinds |-> {"element", "polymer-element"},
         tagName |-> <<"m", "y", "-", "e", "l">>,
         identifier |-> <<"m", "y", "-", "e", "l">>,
         file |-> fooA, description |-> <<"An element.">>,
         jsdoc |-> Doc(<<"An element.">>),
         properties |-> <<label, secret>>, methods |-> <<doThing>>]
nsBehavior == [ctor |-> "Behavior", kinds |-> {"behavior"},
               className |-> <<"N", "s", ".", "B", "h">>,
               identifier |-> <<"N", "s", ".", "B", "h">>,
               file |-> fooA, properties |-> <<ready>>, methods |-> <<>>]
nsMixin == [ctor |-> "ElementMixin", kinds |-> {"element-mixin"},
            className |-> <<"A", ".", "B", ".", "M", "x">>,
            identifier |-> <<"A", ".", "B", ".", "M", "x">>,
            file |-> fooBower, description |-> <<"A mixin.">>,
            jsdoc |-> Doc(<<"A mixin.">>),
            properties |-> <<>>, methods |-> <<restMethod>>]
xEl == [ctor |-> "PolymerElement", kinds |-> {"element", "polymer-element"},
        tagName |-> <<"x", "-", "e", "l">>, identifier |-> <<"x", "-", "e", "l">>,
        file |-> fooB, jsdoc |-> Doc(<<>>), properties |-> <<>>, methods |-> <<>>]
htmlImport == [ctor |-> "Import", kinds |-> {"import", "html-import"},
               file |-> barHtml]
plainBehavior == [ctor |-> "Behavior", kinds |-> {"behavior"},
                  className |-> <<"B", "h">>, identifier |-> <<"B", "h">>,
                  file |-> fooA, description |-> <<"A behavior.">>,
                  jsdoc |-> Doc(<<"A behavior.">>),
                  properties |-> <<label>>, methods |-> <<>>]
libBehavior == [ctor |-> "Behavior", kinds |-> {"behavior"},
                className |-> <<"L", "i", "b">>, identifier |-> <<"L", "i", "b">>,
                file |-> libJs, jsdoc |-> Doc(<<"A behavior.">>),
                properties |-> <<untyped>>, methods |-> <<>>]
freeFunction == [ctor |-> "Function", kinds |-> {"function"},
                 identifier |-> <<"N", "s", ".", "f", "n">>,
                 file |-> fooA, jsdoc |-> Doc(<<>>), properties |-> <<>>]

FeatureSet == {myEl, nsBehavior, nsMixin, xEl, htmlImport, plainBehavior,
               libBehavior, freeFunction}

Variants == {"index", "part_000", "part_001"}

NoFiles == [f \in {} |-> <<>>]

Init ==
  /\ variant \in Variants
  /\ cliOutput \in (IF variant = "index" THEN BOOLEAN ELSE {FALSE})
  /\ features \in SeqUpTo(FeatureSet, MaxFeatures)
  /\ pc = "analyze"
  /\ document = NoObject
  /\ selected = <<>>
  /\ classified = <<>>
  /\ modulesMap = <<>>
  /\ blocks = <<>>
  /\ filesMap = <<>>
  /\ jobs = <<>>
  /\ wstate = <<>>
  /\ disk = NoFiles
  /\ exitCode = 0
  /\ stdout = <<>>
  /\ err = "none"
  /\ analysisFailed = FALSE
  /\ arg = <<>>
  /\ out = <<>>

\* ================================================================= actions
\* analyzer.analyze(cli.input) settles.  A fulfilled promise passes the
\* .catch(console.error) of part_001 untouched.
Analyze ==
  /\ pc = "analyze"
  /\ \E ok \in BOOLEAN :
       IF ok
       THEN /\ document' = [features |-> features]
            /\ pc' = "classify"
            /\ UNCHANGED <<err, analysisFailed>>
       ELSE /\ analysisFailed' = TRUE
            /\ err' = "analysis"
            /\ pc' = IF variant = "part_001" THEN "catchLog" ELSE "catch"
            /\ UNCHANGED document
  /\ UNCHANGED <<variant, cliOutput, features, selected, classified, modulesMap,
                 blocks, filesMap, jobs, wstate, disk, exitCode, stdout, arg, out>>

\* part_001 .catch(console.error): the rejection is logged and the chain
\* goes on with console.error's return value as the document
CatchLog ==
  /\ pc = "catchLog"
  /\ document' = consoleError(err)
  /\ err' = "none"
  /\ pc' = "classify"
  /\ UNCHANGED <<variant, cliOutput, features, selected, classified, modulesMap,
                 blocks, filesMap, jobs, wstate, disk, exitCode, stdout,
                 analysisFailed, arg, out>>

\* .then(document => Array.from(document.getFeatures())
\*                      .filter(filterFeatures).map(getFeatureDetails))
\* map stops at the first descriptor that throws; part_001 has by then
\* pushed its namespace tags onto the jsdoc of the features it went through
anyThrown(results) == \E i \in 1..Len(results) : results[i] = Thrown

firstThrow(results) ==
  IF anyThrown(results)
  THEN CHOOSE i \in 1..Len(results) :
         results[i] = Thrown /\ \A j \in 1..(i - 1) : results[j] # Thrown
  ELSE Len(results)

RECURSIVE positions(_, _, _)
positions(variant_, items, i) ==
  IF i > Len(items) THEN <<>>
  ELSE (IF filterFeatures(variant_, items[i]) THEN <<i>> ELSE <<>>)
         \o positions(variant_, items, i + 1)

Classify ==
  /\ pc = "classify"
  /\ IF document = NoObject
     THEN /\ err' = "TypeError"
          /\ pc' = "catch"
          /\ UNCHANGED <<features, document, selected, classified>>
     ELSE LET kept == filter(variant, document.features)
              at == positions(variant, document.features, 1)
              results == [i \in 1..Len(kept) |-> getFeatureDetails(variant, kept[i])]
              upTo == firstThrow(results)
              touched == {at[i] : i \in 1..upTo}
          IN  /\ features' = IF variant = "part_001"
                             THEN [i \in 1..Len(features) |->
                                     IF i \in touched THEN featureAfter001(features[i])
                                     ELSE features[i]]
                             ELSE features
              /\ document' = [features |-> features']
              /\ selected' = filter(variant, features')
              /\ IF anyThrown(results)
                 THEN /\ err' = "TypeError"
                      /\ pc' = "catch"
                      /\ UNCHANGED classified
                 ELSE /\ classified' = results
                      /\ pc' = IF variant = "index" THEN "write" ELSE "group"
                      /\ UNCHANGED err
  /\ UNCHANGED <<variant, cliOutput, modulesMap, blocks, filesMap, jobs,
                 wstate, disk, exitCode, stdout, analysisFailed, arg, out>>

\* part_000 .then(toModulesMap); part_001 .then(data => data.reduce(..., new Map()))
Group ==
  /\ pc = "group"
  /\ modulesMap' = toModulesMap(variant, classified)
  /\ pc' = IF variant = "part_000" THEN "build" ELSE "render"
  /\ UNCHANGED <<variant, cliOutput, features, document, selected, classified,
                 blocks, filesMap, jobs, wstate, disk, exitCode, stdout, err,
                 analysisFailed, arg, out>>

\* part_000 .then(buildModules)
Build ==
  /\ pc = "build"
  /\ blocks' = buildModules(modulesMap)
  /\ pc' = "split"
  /\ UNCHANGED <<variant, cliOutput, features, document, selected, classified,
                 modulesMap, filesMap, jobs, wstate, disk, exitCode, stdout, err,
                 analysisFailed, arg, out>>

\* part_000 .then(splitModulesToFiles)
Split ==
  /\ pc = "split"
  /\ IF splitThrows(blocks)
     THEN /\ err' = "TypeError"
          /\ pc' = "catch"
          /\ UNCHANGED filesMap
     ELSE /\ filesMap' = splitModulesToFiles(blocks)
          /\ pc' = "write"
          /\ UNCHANGED err
  /\ UNCHANGED <<variant, cliOutput, features, document, selected, classified,
                 modulesMap, blocks, jobs, wstate, disk, exitCode, stdout,
                 analysisFailed, arg, out>>

\* .then(filesMap => Promise.all(keys.map(filePath => new Promise(...)))):
\* every fs.writeFile is issued before any of them completes; Promise.all
\* of no promise is fulfilled at once
StartWrites ==
  /\ pc = "write"
  /\ jobs' = IF variant = "index" THEN writesIndex(cliOutput, classified)
             ELSE writes000(filesMap)
  /\ wstate' = [i \in 1..Len(jobs') |-> "issued"]
  /\ pc' = IF Len(jobs') = 0 THEN "finish" ELSE "writing"
  /\ UNCHANGED <<variant, cliOutput, features, document, selected, classified,
                 modulesMap, blocks, filesMap, disk, exitCode, stdout, err,
                 analysisFailed, arg, out>>

\* The operating system carries out one issued write, or fails it.  This
\* happens off the JavaScript thread, for as long as the process lives.
WriteEffect(i) ==
  /\ pc \in {"writing", "catch"}
  /\ wstate[i] = "issued"
  /\ \E ok \in BOOLEAN :
       IF ok
       THEN /\ disk' = writeFile(disk, jobs[i])
            /\ wstate' = [wstate EXCEPT ![i] = "written"]
       ELSE /\ wstate' = [wstate EXCEPT ![i] = "failed"]
            /\ UNCHANGED disk
  /\ UNCHANGED <<variant, cliOutput, features, pc, document, selected, classified,
                 modulesMap, blocks, filesMap, jobs, exitCode, stdout, err,
                 analysisFailed, arg, out>>

\* (err) => done(): the error of a failed write is dropped
WriteCallbackIgnoresError(i) ==
  /\ pc = "writing"
  /\ wstate[i] \in {"written", "failed"}
  /\ wstate' = [wstate EXCEPT ![i] = IF wstate[i] = "failed" THEN "rejected" ELSE "done"]
  /\ pc' = IF \A j \in 1..Len(wstate') : wstate'[j] \in {"done", "rejected"}
           THEN "finish" ELSE "writing"
  /\ UNCHANGED <<variant, cliOutput, features, document, selected, classified,
                 modulesMap, blocks, filesMap, jobs, disk, exitCode, stdout,
                 err, analysisFailed, arg, out>>

\* (err) => err ? fail(err) : done().  The first fail rejects Promise.all;
\* the last done fulfils it.
WriteCallback(i) ==
  /\ pc = "writing"
  /\ wstate[i] \in {"written", "failed"}
  /\ IF wstate[i] = "failed"
     THEN /\ wstate' = [wstate EXCEPT ![i] = "rejected"]
          /\ err' = "write"
          /\ pc' = "catch"
     ELSE /\ wstate' = [wstate EXCEPT ![i] = "done"]
          /\ pc' = IF \A j \in 1..Len(wstate') : wstate'[j] = "done"
                   THEN "finish" ELSE "writing"
          /\ UNCHANGED err
  /\ UNCHANGED <<variant, cliOutput, features, document, selected, classified,
                 modulesMap, blocks, filesMap, jobs, disk, exitCode, stdout,
                 analysisFailed, arg, out>>

\* part_001 .then(data => { types = ...; if (types.length) writeFileSync })
RenderWrite ==
  /\ pc = "render"
  /\ LET types == printModules(modulesMap)
     IN  IF printThrows(types)
         THEN /\ err' = "TypeError"
              /\ pc' = "catch"
              /\ UNCHANGED <<blocks, disk>>
         ELSE /\ blocks' = types
              /\ \E ok \in BOOLEAN :
                   IF Len(types) = 0 \/ ok
                   THEN /\ disk' = IF Len(types) = 0 THEN disk
                                   ELSE writeFile(disk, [file |-> <<"potts.d.ts">>,
                                                         text |-> types])
                        /\ pc' = "finish"
                        /\ UNCHANGED err
                   ELSE /\ err' = "write"
                        /\ pc' = "catch"
                        /\ UNCHANGED disk
  /\ UNCHANGED <<variant, cliOutput, features, document, selected, classified,
                 modulesMap, filesMap, jobs, wstate, exitCode, stdout,
                 analysisFailed, arg, out>>

\* .then(() => { console.log("done"); process.exit(0); })
Finish ==
  /\ pc = "finish"
  /\ stdout' = Append(stdout, "done")
  /\ exitCode' = exitStatus(0)
  /\ pc' = "exited"
  /\ UNCHANGED <<variant, cliOutput, features, document, selected, classified,
                 modulesMap, blocks, filesMap, jobs, wstate, disk, err,
                 analysisFailed, arg, out>>

\* .catch(err => { console.log(err); process.exit(-1); })
CatchExit ==
  /\ pc = "catch"
  /\ stdout' = Append(stdout, err)
  /\ exitCode' = exitStatus(-1)
  /\ pc' = "exited"
  /\ UNCHANGED <<variant, cliOutput, features, document, selected, classified,
                 modulesMap, blocks, filesMap, jobs, wstate, disk, err,
                 analysisFailed, arg, out>>

Next ==
  \/ Analyze
  \/ CatchLog
  \/ Classify
  \/ Group
  \/ Build
  \/ Split
  \/ StartWrites
  \/ \E i \in 1..Len(wstate) : WriteEffect(i)
  \/ \E i \in 1..Len(wstate) : WriteCallback(i)
  \/ RenderWrite
  \/ Finish
  \/ CatchExit

Spec == Init /\ [][Next]_vars

\* ======================================================= pure-function runs
\* The functions below are run on their own, on inputs drawn from bounded
\* sets; the pipeline stands still meanwhile.
Idle ==
  /\ variant = "none"
  /\ cliOutput = FALSE
  /\ features = <<>>
  /\ document = NoObject
  /\ selected = <<>>
  /\ classified = <<>>
  /\ modulesMap = <<>>
  /\ blocks = <<>>
  /\ filesMap = <<>>
  /\ jobs = <<>>
  /\ wstate = <<>>
  /\ disk = NoFiles
  /\ exitCode = 0
  /\ stdout = <<>>
  /\ err = "none"
  /\ analysisFailed = FALSE

\* ------------------------------------------------------------------ casing
NameChars == {"a", "b", "A", "-"}
myElement == <<"m", "y", "-", "e", "l", "e", "m", "e", "n", "t">>
alreadyCapped == <<"a", "l", "r", "e", "a", "d", "y", "-",
                   "C", "a", "p", "p", "e", "d">>
\* tag and class names begin and end with a letter
Names ==
  {n \in SeqUpTo(NameChars, MaxNameLen) : Len(n) > 0 /\ n[1] # "-" /\ Last(n) # "-"}
    \cup {myElement, alreadyCapped}

InitCasing ==
  /\ Idle
  /\ pc = "name"
  /\ arg \in Names
  /\ out = <<>>

\* the name is cased
CaseName ==
  /\ pc = "name"
  /\ out' = <<camelName(arg)>>
  /\ pc' = "cased"
  /\ UNCHANGED <<arg, pipelineVars>>

\* the cased name is cased again
RecaseName ==
  /\ pc = "cased"
  /\ out' = Append(out, camelName(out[1]))
  /\ pc' = "recased"
  /\ UNCHANGED <<arg, pipelineVars>>

NextCasing ==
  \/ CaseName
  \/ RecaseName

CasingSpec == InitCasing /\ [][NextCasing]_vars

\* ------------------------------------------------------ namespace and name
IdChars == {"a", "B", "-", "."}
\* dotted identifiers: letters at both ends, no two separators in a row
Identifiers ==
  {id \in SeqUpTo(IdChars, MaxIdLen) :
     /\ Len(id) > 0 /\ id[1] \in WordChars /\ Last(id) \in WordChars
     /\ \A i \in 1..(Len(id) - 1) : id[i] \in WordChars \/ id[i + 1] \in WordChars}

\* arg.id is the identifier; index.js and part_000 read it from className,
\* or from tagName when arg.tag says the feature is named by its tag
InitNames ==
  /\ Idle
  /\ pc = "identifier"
  /\ arg \in [id : Identifiers, tag : BOOLEAN]
  /\ out = <<>>

asFeature(a) ==
  IF a.tag THEN [className |-> Undefined, tagName |-> a.id, identifier |-> a.id]
  ELSE [className |-> a.id, tagName |-> Undefined, identifier |-> a.id]

SplitName(v) ==
  /\ pc = "identifier"
  /\ out' = IF v = "index" THEN splitNameIndex(asFeature(arg))
            ELSE IF v = "part_000" THEN splitName000(asFeature(arg))
            ELSE splitName001(asFeature(arg))
  /\ pc' = v
  /\ UNCHANGED <<arg, pipelineVars>>

NextNames == \E v \in Variants : SplitName(v)

NameSpec == InitNames /\ [][NextNames]_vars

\* ------------------------------------------------------------- type mapper
TypePrefixes == {<<>>, <<"!">>, <<"?">>}
TypeSuffixes == {<<>>, <<"=">>}
BaseNames == {<<"string">>, <<"number">>, <<"boolean">>, <<"Date">>,
              <<"Symbol">>, <<"Array">>, <<"Function">>, <<"Object">>,
              <<"HTMLElement">>, <<"any">>, <<"Conditional">>}
TypeDescriptors ==
  {Undefined, Null}
    \cup {p \o b \o x : p \in TypePrefixes, b \in BaseNames, x \in TypeSuffixes}

InitTypes ==
  /\ Idle
  /\ pc = "type"
  /\ arg \in [type : TypeDescriptors, forceArray : BOOLEAN,
              name : {"ready", "compute"},
              params : {<<>>, <<[name |-> <<"e">>]>>}]
  /\ out = <<>>

\* part_001 parseType(type, forceArray)
ParseType ==
  /\ pc = "type"
  /\ out' = parseType(arg.type, arg.forceArray)
  /\ pc' = "parseType"
  /\ UNCHANGED <<arg, pipelineVars>>

\* part_000 cast(name, type, params)
Cast000 ==
  /\ pc = "type"
  /\ out' = cast000(arg.name, arg.type, arg.params)
  /\ pc' = "cast000"
  /\ UNCHANGED <<arg, pipelineVars>>

\* index.js cast(type, params)
CastIndex ==
  /\ pc = "type"
  /\ out' = castIndex(arg.type, arg.params)
  /\ pc' = "castIndex"
  /\ UNCHANGED <<arg, pipelineVars>>

NextTypes ==
  \/ ParseType
  \/ Cast000
  \/ CastIndex

TypeSpec == InitTypes /\ [][NextTypes]_vars

\* --------------------------------------------- getFeatureDetails (part_001)
MaxMembers == 1

noDocMethod == [name |-> "plain", privacy |-> <<"public">>, params |-> <<>>]
tagsOnlyMethod == [name |-> "tagged", privacy |-> <<"public">>, params |-> <<>>,
                   jsdoc |-> [tags |-> <<[title |-> "param", name |-> <<"x">>]>>]]
privateMethod == [name |-> "_hidden", privacy |-> <<"private">>]
MethodSet == {doThing, restMethod, noDocMethod, tagsOnlyMethod, privateMethod}
PropertySet == {label, untyped, secret}

Absent == [f \in {} |-> <<>>]

DetailFeatures ==
  {[kinds |-> k, file |-> fooA] @@ i @@ j @@ m @@ p :
     k \in {{"element"}, {"behavior", "polymer-behavior"}, {"html-import"}},
     i \in {Absent, [identifier |-> myEl.identifier],
            [identifier |-> nsBehavior.identifier]},
     j \in {Absent, [jsdoc |-> Doc(<<"Text.">>)],
            [jsdoc |-> [tags |-> <<[title |-> "polymer"]>>]]},
     m \in {Absent} \cup {[methods |-> ms] : ms \in SeqUpTo(MethodSet, MaxMembers)},
     p \in {Absent} \cup {[properties |-> ps] : ps \in SeqUpTo(PropertySet, MaxMembers)}}

InitDetails ==
  /\ Idle
  /\ pc = "feature"
  /\ arg \in DetailFeatures
  /\ out = <<>>

\* the Filter, then getFeatureDetails on a feature that passed it
Details ==
  /\ pc = "feature"
  /\ filterFeatures("part_001", arg)
  /\ out' = getFeatureDetails001(arg)
  /\ arg' = featureAfter001(arg)
  /\ pc' = "details"
  /\ UNCHANGED pipelineVars

\* getFeatureDetails once more on the same feature object
DetailsAgain ==
  /\ pc = "details"
  /\ out' = getFeatureDetails001(arg)
  /\ arg' = featureAfter001(arg)
  /\ pc' = "again"
  /\ UNCHANGED pipelineVars

NextDetails == Details \/ DetailsAgain

DetailSpec == InitDetails /\ [][NextDetails]_vars

\* ================================================================== claims
Grouped == variant \in {"part_000", "part_001"} /\ pc \notin {"analyze", "catchLog", "classify", "group"}

keyIs(v, key, d) == moduleKey(v, d) = key

bucketOf(v, key) ==
  LET sameKey(d) == keyIs(v, key, d) IN SelectSeq(classified, sameKey)

\* C1: grouping is a partition of the classified descriptors: bucket keys are
\* distinct, every descriptor's module key has a bucket, and each bucket holds
\* exactly the descriptors with its key, as often as and in the order in
\* which they were classified (so none is dropped, duplicated or moved).
C1_GroupingIsPartition ==
  Grouped =>
    /\ \A i, j \in 1..Len(modulesMap) :
         i # j => modulesMap[i].key # modulesMap[j].key
    /\ \A i \in 1..Len(classified) :
         hasKey(modulesMap, moduleKey(variant, classified[i]))
    /\ \A i \in 1..Len(modulesMap) :
         /\ Len(modulesMap[i].members) > 0
         /\ modulesMap[i].members = bucketOf(variant, modulesMap[i].key)

\* two different descriptors share a bucket, in part_000 and in part_001
C1_Witness ==
  /\ Grouped
  /\ variant = "part_000"
  /\ \E i \in 1..Len(modulesMap) :
       /\ Len(modulesMap[i].members) = 2
       /\ modulesMap[i].members[1] # modulesMap[i].members[2]

derivedFile(block) == fileName(beforeHash(block.declareModule)) \o <<".d.ts">>

inText(block, text) == \E k \in 1..Len(text) : text[k] = block

\* C2: after a successful per-file run, two modules whose keys derive the
\* same file name are both in that file.
C2_CollisionsConcatenated ==
  (variant = "part_000" /\ pc = "exited" /\ exitCode = 0) =>
    \A i, j \in 1..Len(blocks) :
      (i # j /\ derivedFile(blocks[i]) = derivedFile(blocks[j])) =>
        /\ derivedFile(blocks[i]) \in DOMAIN disk
        /\ inText(blocks[i], disk[derivedFile(blocks[i])])
        /\ inText(blocks[j], disk[derivedFile(blocks[i])])

\* a write has failed
writeFailed == \E i \in 1..Len(wstate) : wstate[i] \in {"failed", "rejected"}
\* a failed write has been reported to the promise chain
writeRejected == \E i \in 1..Len(wstate) : wstate[i] = "rejected"
donePrinted == \E k \in 1..Len(stdout) : stdout[k] = "done"

\* C6: once the analysis has failed no output file exists, done is not
\* printed, and the run goes on until it has exited (no step leads back, so
\* it does exit), with a nonzero status.
C6_AnalysisFailureAborts ==
  analysisFailed =>
    /\ disk = NoFiles
    /\ ~donePrinted
    /\ IF pc = "exited" THEN exitCode # 0 ELSE ENABLED Next

\* part_001 has logged the failure, gone on, thrown in the next handler and
\* left through the final catch
C6_Witness ==
  /\ analysisFailed
  /\ variant = "part_001"
  /\ pc = "exited"
  /\ exitCode = 255
  /\ stdout = <<"TypeError">>

\* C7 as claimed: once a write has failed no write takes effect.
C7_NoWriteAfterFailure == [][writeFailed => disk' = disk]_vars

\* a step keeps every file, and changes a file's content only by carrying
\* out a write that was issued for that file
onlyWritesChangeFiles ==
  variant \in {"index", "part_000"} =>
    \A f \in DOMAIN disk :
      /\ f \in DOMAIN disk'
      /\ disk'[f] # disk[f] =>
           \E i \in 1..Len(wstate) :
             /\ wstate[i] = "issued" /\ wstate'[i] = "written"
             /\ jobs[i].file = f /\ disk'[f] = jobs[i].text

\* C7 amended: a write in flight may still land until the process exits;
\* once a write has failed the run does not print done and goes on until it
\* has exited, with a nonzero status, after which nothing is written; a
\* file's content changes only by a later write to the same file, never by
\* the failure.
C7_FailureReportedNoRollback ==
  /\ [](writeFailed => /\ ~donePrinted
                        /\ IF pc = "exited" THEN exitCode # 0 ELSE ENABLED Next)
  /\ [][pc = "exited" => disk' = disk]_vars
  /\ [][onlyWritesChangeFiles]_vars

\* one write was rejected, another file is on disk, the run has exited 255
C7_Witness ==
  /\ variant = "part_000"
  /\ writeRejected
  /\ DOMAIN disk # {}
  /\ pc = "exited"
  /\ exitCode = 255

Filtered == variant \in {"part_000", "part_001"} /\ document # NoObject
              /\ pc \notin {"analyze", "catchLog", "classify"}

keptAt == {i \in 1..Len(document.features) :
             document.features[i].kinds \cap supportedFeatures(variant) # {}}

\* the k-th smallest element of a set of positions
nth(S, k) == CHOOSE i \in S : Cardinality({j \in S : j <= i}) = k

\* C3: the Filter's result is the subsequence, in input order, of exactly the
\* features with at least one supported kind.
C3_FilterKeepsSupported ==
  Filtered =>
    /\ Len(selected) = Cardinality(keptAt)
    /\ \A k \in 1..Len(selected) : selected[k] = document.features[nth(keptAt, k)]
    /\ \A k \in 1..Len(selected) : selected[k].kinds \cap supportedFeatures(variant) # {}

\* a feature with a supported and an unsupported kind is kept, another dropped
C3_Witness ==
  /\ Filtered
  /\ Len(selected) = 1
  /\ Len(document.features) = 2
  /\ selected[1].kinds \ supportedFeatures(variant) # {}

baseName(type) ==
  LET t1 == IF Len(type) > 0 /\ type[1] \in {"!", "?"} THEN Tail(type) ELSE type
  IN  IF Len(t1) > 0 /\ Last(t1) = "=" THEN Front(t1) ELSE t1

Unrecognised(type) ==
  baseName(type) \notin {<<"string">>, <<"number">>, <<"boolean">>, <<"Date">>,
                         <<"Symbol">>, <<"Array">>, <<"Function">>}

\* C4 as claimed: the mapper never throws and maps every descriptor with an
\* unrecognised base name to any.
C4_UnrecognisedIsAny ==
  /\ pc = "parseType" => /\ out # TypeError
                         /\ Unrecognised(arg.type) => out = <<"any">>
  /\ pc = "cast000" => (Unrecognised(arg.type) => out.returnType = <<"any">>)
  /\ pc = "castIndex" => /\ out # TypeError
                         /\ Unrecognised(arg.type) => out = <<"any">>

\* C4 amended: the same, except that the descriptor of a variadic parameter
\* (forceArray) maps to Array<any>, the array of any.
C4_UnrecognisedIsAnyOrArrayOfAny ==
  /\ pc = "parseType" =>
       /\ out # TypeError
       /\ Unrecognised(arg.type) =>
            out = IF arg.forceArray THEN <<"Array<", "any", ">">> ELSE <<"any">>
  /\ pc = "cast000" => (Unrecognised(arg.type) => out.returnType = <<"any">>)
  /\ pc = "castIndex" => /\ out # TypeError
                         /\ Unrecognised(arg.type) => out = <<"any">>

\* a marked, unrecognised base name has been mapped by parseType
C4_Witness ==
  /\ pc = "parseType"
  /\ arg.type = <<"!", "HTMLElement", "=">>
  /\ ~arg.forceArray
  /\ out = <<"any">>

\* C5: getFeatureDetails returns a descriptor for every feature that passed
\* the Filter.
C5_ClassificationNeverThrows ==
  pc = "details" => out # Thrown

hasDot(id) == \E i \in 1..Len(id) : id[i] = "."
lastDot(id) == CHOOSE i \in 1..Len(id) : id[i] = "." /\ \A j \in (i + 1)..Len(id) : id[j] # "."

\* C8: with a dot in the identifier the namespace is everything before the
\* last dot and the name comes from the last segment alone; without a dot
\* there is no namespace (null, or the empty string part_000 leaves) and the
\* name comes from the whole identifier.
C8_NamespaceIsPrefix ==
  (pc \in Variants /\ out # Thrown) =>
    LET id == arg.id
        segment == SubSeq(id, lastDot(id) + 1, Len(id))
    IN  IF hasDot(id)
        THEN /\ out.namespace = SubSeq(id, 1, lastDot(id) - 1)
             /\ out.name \in {segment, camelName(segment)}
             /\ ~hasDot(out.name)
        ELSE /\ ~Truthy(out.namespace)
             /\ out.name \in {id, camelName(id)}

\* C9: descriptors that share a bucket have the same namespace, and the key
\* of a namespaced descriptor is its rewritten path, #, its namespace.
C9_NamespaceInModuleKey ==
  Grouped =>
    \A i \in 1..Len(modulesMap) :
      \A m, n \in 1..Len(modulesMap[i].members) :
        LET d == modulesMap[i].members[m]
            e == modulesMap[i].members[n]
        IN  /\ Truthy(d.namespace) = Truthy(e.namespace)
            /\ Truthy(d.namespace) => d.namespace = e.namespace
            /\ Truthy(d.namespace) =>
                 modulesMap[i].key = rewriteRepo(d.module) \o <<"#">> \o d.namespace

\* C10: casing a cased name changes nothing, and the two examples.
C10_CasingIdempotent ==
  /\ pc = "recased" => out[2] = out[1]
  /\ (pc = "cased" /\ arg = myElement) =>
       out[1] = <<"M", "y", "E", "l", "e", "m", "e", "n", "t">>
  /\ (pc = "cased" /\ arg = alreadyCapped) =>
       out[1] = <<"A", "l", "r", "e", "a", "d", "y", "C", "a", "p", "p", "e", "d">>

\* C11: getFeatureDetails leaves the feature it is given unchanged, doc comment
\* and tag list included, and classifying the same feature again returns an
\* equal descriptor.
classifyLeavesFeature ==
  /\ pc \in {"feature", "details"} => arg' = arg
  /\ pc = "details" => out' = out

C11_ClassifyLeavesFeatureUnchanged == [][classifyLeavesFeature]_vars

====
